---------------------------- MODULE Spec2Model ----------------------------
(***************************************************************************)
(* Verification model of the STFT/iSTFT diagnostics and of the ONNX        *)
(* separation pipeline of poc/uvr_coreml.                                  *)
(*                                                                         *)
(* Part 1: manual_stft_istft (test_stft_simple.py), run step by step.      *)
(* Part 2: the separation pipeline (python/test_separation.py,             *)
(*         test_python_reference.py).                                      *)
(* Part 3: the single-chunk tensor builders (python/verify_coreml.py,      *)
(*         debug_model_output.py).                                         *)
(*                                                                         *)
(* Floating-point samples are fixed-point integers: a sample value v is    *)
(* the integer v, a window coefficient w is round(w * One), so a windowed  *)
(* sample is in units of 1/One and a twice windowed one in 1/One^2.        *)
(* Complex spectra are exact: a bin is an element of Z[zeta], zeta the     *)
(* primitive 8th root of unity, written <<a, b, c, d>> for                 *)
(* a + b*zeta + c*zeta^2 + d*zeta^3 (zeta^4 = -1).                         *)
(***************************************************************************)
EXTENDS Integers, Sequences, FiniteSets, TLC

VARIABLES
    pc,             \* position of the running script
    \* ---- manual_stft_istft (test_stft_simple.py)
    n_fft,          \* frame size
    hop_length,     \* hop
    signal,         \* input samples
    window,         \* np.hanning(n_fft), fixed-point
    num_frames,     \* (len(signal) - n_fft) // hop_length + 1
    stft_result,    \* list of np.fft.fft results, one per frame
    frame_idx,      \* loop variable of the running loop
    frame,          \* last slice taken from signal
    windowed,       \* last frame * window
    output_length,  \* (num_frames - 1) * hop_length + n_fft
    output,         \* overlap-add accumulator
    window_sum,     \* normalisation accumulator
    reconstructed,  \* output / window_sum
    \* ---- separation pipeline (python/test_separation.py, test_python_reference.py)
    audio,          \* mixed_audio: [channels, frames], frames the STFT frame count it gives
    stft_n_fft,     \* n_fft given to stft_transform
    chunk_size,     \* chunk_size given to run_onnx_inference
    spectrogram,    \* complex [channels, freq, time]
    real_part,      \* float32 [channels, freq, time]
    imag_part,
    channels,
    freq_bins,
    time_frames,
    num_chunks,
    chunk_i,        \* loop variable i of the chunk loop
    input_data,     \* tensor of the running chunk, [4, freq, time] under the batch axis
    masks,          \* list of complex chunk masks
    full_mask,      \* vocal_mask
    instrumental_mask,
    spectrogram_adjusted,
    vocal_spec,
    inst_spec,
    istft_n_fft,    \* frame size librosa.istft works with
    saved,          \* stems written so far
    calls,          \* the session.run calls made so far: [input, ok, output]
    \* ---- the other scripts
    lib_window,     \* compare_stft_librosa.py: window, <<>> before line 26
    diag,           \* a 440 Hz diagnostic: [script, frequency, n_fft, sr, bin]
    mask_nan,       \* an inference output held a NaN or Inf outside the kept values
    mix,            \* main's mix loop: [tracks, i, audio, mixed_audio]
    prep_input,     \* what prepare_model_input returned
    dl              \* download_model.py: the call, the file at output_path, the result

stftVars == <<n_fft, hop_length, signal, window, num_frames, stft_result,
              frame_idx, frame, windowed, output_length, output, window_sum,
              reconstructed>>

sepVars == <<audio, stft_n_fft, chunk_size, spectrogram, real_part, imag_part,
             channels, freq_bins, time_frames, num_chunks, chunk_i, input_data,
             masks, full_mask, instrumental_mask, spectrogram_adjusted, vocal_spec,
             inst_spec, istft_n_fft, saved, calls>>

auxVars == <<lib_window, diag, mask_nan, mix, prep_input, dl>>

vars == <<pc, stftVars, sepVars, auxVars>>

\* None of the other scripts has run, but for those that own the variables named.
AuxIdleBut(names) ==
    /\ "lib_window" \in names \/ lib_window = <<>>
    /\ "diag" \in names \/ diag = <<>>
    /\ "mask_nan" \in names \/ mask_nan = FALSE
    /\ "mix" \in names \/ mix = <<>>
    /\ "prep_input" \in names \/ prep_input = <<>>
    /\ "dl" \in names \/ dl = <<>>
AuxIdle == AuxIdleBut({})

(***************************************************************************)
(* Bounds of the model.                                                    *)
(***************************************************************************)
MaxLen == 16
MaxHop == 3

\* Frame sizes whose DFT twiddle factors are powers of zeta.
FrameSizes == {1, 2, 4, 8}

SignalKinds == {"ones", "ramp", "alt"}

\* Time frames of a spectrogram, and chunk sizes, of the separation runs.
MaxFrames == 5
MaxChunk == 3
MaxChannels == 3

\* n_fft values of the separation runs: 5, 2048 and 2049 frequency bins.
SepFftSizes == {8, 4094, 4096}

\* The frequency bins whose values the model keeps: every array keeps its true
\* shape, and its values at these bins.
ProbeBins == {0, 1, 2, 3, 4, 2046, 2047, 2048}

\* The chunk size prepare_model_input works with (verify_coreml.py line 89)
PrepChunk == 256

\* The time frames whose values the model keeps.
ProbeFrames == (0..(MaxFrames + MaxChunk)) \cup ((PrepChunk - 3)..(PrepChunk + 2))

\* The float32 value 1.0 in fixed-point units.
One == 1000

Max(a, b) == IF a >= b THEN a ELSE b
Min(a, b) == IF a <= b THEN a ELSE b

(***************************************************************************)
(* numpy helpers                                                           *)
(***************************************************************************)
\* s[a:b] for 0 <= a, b: the slice is clamped to the sequence.
PySlice(s, a, b) == SubSeq(s, a + 1, Min(b, Len(s)))

\* np.zeros(n)
Zeros(n) == [k \in 1..n |-> 0]

\* a * b elementwise, over the common extent
MulSeq(a, b) == [k \in 1..Min(Len(a), Len(b)) |-> a[k] * b[k]]

\* np.hanning(n) in units of 1/One: 0.5 - 0.5*cos(2*pi*k/(n-1)), and [1.0] for n = 1
Hanning(n) ==
    CASE n = 1 -> <<One>>
      [] n = 2 -> <<0, 0>>
      [] n = 4 -> <<0, 750, 750, 0>>
      [] n = 8 -> <<0, 188, 611, 950, 950, 611, 188, 0>>

\* The input signals: np.ones(len), a ramp 1, 2, 3, ... and an alternating 1, 2, 1, ...
MakeSignal(kind, len) ==
    [k \in 1..len |->
        CASE kind = "ones" -> 1
          [] kind = "ramp" -> k
          [] kind = "alt"  -> 1 + ((k - 1) % 2)]

(***************************************************************************)
(* Exact DFT over Z[zeta]                                                  *)
(***************************************************************************)
CZero == <<0, 0, 0, 0>>
CAdd(x, y) == <<x[1] + y[1], x[2] + y[2], x[3] + y[3], x[4] + y[4]>>
\* x * zeta
CRot(x) == <<0 - x[4], x[1], x[2], x[3]>>
RECURSIVE CMulZeta(_, _)
\* x * zeta^e, e >= 0
CMulZeta(x, e) == IF e % 8 = 0 THEN x ELSE CMulZeta(CRot(x), (e % 8) - 1)
CReal(r) == <<r, 0, 0, 0>>
\* Re(x): 1/sqrt(2) = 0.7071 multiplies the zeta and zeta^3 coordinates
RealPart(x) == x[1] + ((x[2] - x[4]) * 7071) \div 10000

RECURSIVE CSum(_, _, _)
\* sum of term[k] for k in lo..hi
CSum(term, lo, hi) == IF lo > hi THEN CZero ELSE CAdd(term[lo], CSum(term, lo + 1, hi))

\* np.fft.fft(x) for a real x of length n: X[k] = sum_m x[m] * exp(-2*pi*i*k*m/n)
Fft(x) ==
    LET n == Len(x)
        step == IF n = 0 THEN 0 ELSE 8 \div n
    IN  [k \in 1..n |->
            CSum([m \in 1..n |->
                    CMulZeta(CReal(x[m]), 8 * n - ((k - 1) * (m - 1) * step))],
                 1, n)]

\* np.fft.ifft(X).real: x[m] = Re((1/n) * sum_k X[k] * exp(+2*pi*i*k*m/n))
IfftReal(X) ==
    LET n == Len(X)
        step == IF n = 0 THEN 0 ELSE 8 \div n
    IN  [m \in 1..n |->
            RealPart(CSum([k \in 1..n |->
                            CMulZeta(X[k], (k - 1) * (m - 1) * step)],
                          1, n)) \div n]

(***************************************************************************)
(* Part 1: manual_stft_istft                                               *)
(***************************************************************************)
\* (len(signal) - n_fft) // hop_length + 1; // floors, so the value is <= 0 for a
\* signal shorter than one frame
NumFramesNoPlusOne(len, n, hop) == (len - n) \div hop
NumFramesIgnoringFrameSize(len, n, hop) == len \div hop + 1
NumFrames(len, n, hop) == (len - n) \div hop + 1

\* (num_frames - 1) * hop_length + n_fft
OutputLength(nf, n, hop) == (nf - 1) * hop + n

\* The weights added into window_sum for one frame: window itself
NormWeight(w) == w

\* a[start:start+len(b)] += b
AddAtShifted(a, start, b) ==
    [k \in 1..Len(a) |->
        IF k > start + 1 /\ k <= start + 1 + Len(b) THEN a[k] + b[k - start - 1] ELSE a[k]]
AddAt(a, start, b) ==
    [k \in 1..Len(a) |->
        IF k > start /\ k <= start + Len(b) THEN a[k] + b[k - start] ELSE a[k]]

\* 1e-8 as 1/EpsInv
EpsInv == 100000000
\* w > 1e-8, for w in units of 1/One
GtEps(w) == w > One \div EpsInv

\* np.where(window_sum > 1e-8, window_sum, 1.0)
WhereUnguarded(ws) == ws
Where(ws) == [k \in 1..Len(ws) |-> IF GtEps(ws[k]) THEN ws[k] ELSE One]

\* a / b of float32 arrays, a in units of 1/One^2 and b in 1/One, rounded to the
\* nearest 1/One; a zero divisor gives inf or nan, never an exception
FloatDiv(a, b) ==
    IF b = 0 THEN [fin |-> FALSE, v |-> 0]
    ELSE [fin |-> TRUE, v |-> (2 * a + b) \div (2 * b)]

DivSeq(a, b) == [k \in 1..Min(Len(a), Len(b)) |-> FloatDiv(a[k], b[k])]

\* numpy broadcasting of two 1-d shapes
Broadcastable(la, lb) == la = lb \/ la = 1 \/ lb = 1

\* The separation pipeline is not running.
SepIdle ==
    /\ audio = <<>>
    /\ stft_n_fft = 0
    /\ chunk_size = 0
    /\ spectrogram = <<>>
    /\ real_part = <<>>
    /\ imag_part = <<>>
    /\ channels = 0
    /\ freq_bins = 0
    /\ time_frames = 0
    /\ num_chunks = 0
    /\ chunk_i = 0
    /\ input_data = <<>>
    /\ masks = <<>>
    /\ full_mask = <<>>
    /\ instrumental_mask = <<>>
    /\ spectrogram_adjusted = <<>>
    /\ vocal_spec = <<>>
    /\ inst_spec = <<>>
    /\ istft_n_fft = 0
    /\ saved = {}
    /\ calls = <<>>

StftInit ==
    /\ SepIdle
    /\ n_fft \in FrameSizes
    /\ hop_length \in 1..MaxHop
    /\ \E kind \in SignalKinds, len \in 0..MaxLen : signal = MakeSignal(kind, len)
    /\ window = Hanning(n_fft)
    /\ num_frames = NumFrames(Len(signal), n_fft, hop_length)
    /\ stft_result = <<>>
    /\ frame_idx = 0
    /\ frame = <<>>
    /\ windowed = <<>>
    /\ output_length = 0
    /\ output = <<>>
    /\ window_sum = <<>>
    /\ reconstructed = <<>>
    /\ pc = "stft"
    /\ AuxIdle

\* One pass of the forward loop (lines 36-45); frame_idx counts the passes made.
StftFrame ==
    /\ pc = "stft"
    /\ frame_idx < num_frames
    /\ LET start == frame_idx * hop_length
       IN  /\ frame' = PySlice(signal, start, start + n_fft)
           /\ windowed' = MulSeq(frame', window)
           /\ stft_result' = Append(stft_result, Fft(windowed'))
    /\ frame_idx' = frame_idx + 1
    /\ UNCHANGED <<pc, n_fft, hop_length, signal, window, num_frames,
                   output_length, output, window_sum, reconstructed>>
    /\ UNCHANGED sepVars
    /\ UNCHANGED auxVars

\* The forward loop has ended: the accumulators are allocated (lines 53-55).
\* np.zeros raises ValueError for a negative length.
AllocOutput ==
    /\ pc = "stft"
    /\ frame_idx >= num_frames
    /\ output_length' = OutputLength(num_frames, n_fft, hop_length)
    /\ \/ /\ output_length' >= 0
          /\ output' = Zeros(output_length')
          /\ window_sum' = Zeros(output_length')
          /\ pc' = "istft"
       \/ /\ output_length' < 0
          /\ pc' = "raised"
          /\ UNCHANGED <<output, window_sum>>
    /\ frame_idx' = 0
    /\ UNCHANGED <<n_fft, hop_length, signal, window, num_frames, stft_result,
                   frame, windowed, reconstructed>>
    /\ UNCHANGED sepVars
    /\ UNCHANGED auxVars

\* One pass of the inverse loop (lines 59-69).
IstftFrame ==
    /\ pc = "istft"
    /\ frame_idx < num_frames
    /\ LET ifft_result == IfftReal(stft_result[frame_idx + 1])
           windowed_output == MulSeq(ifft_result, window)
           start == frame_idx * hop_length
       IN  /\ output' = AddAt(output, start, windowed_output)
           /\ window_sum' = AddAt(window_sum, start, NormWeight(window))
    /\ frame_idx' = frame_idx + 1
    /\ UNCHANGED <<pc, n_fft, hop_length, signal, window, num_frames, stft_result,
                   frame, windowed, output_length, reconstructed>>
    /\ UNCHANGED sepVars
    /\ UNCHANGED auxVars

\* Line 77.
Normalize ==
    /\ pc = "istft"
    /\ frame_idx >= num_frames
    /\ window_sum' = Where(window_sum)
    /\ pc' = "divide"
    /\ UNCHANGED <<n_fft, hop_length, signal, window, num_frames, stft_result,
                   frame_idx, frame, windowed, output_length, output, reconstructed>>
    /\ UNCHANGED sepVars
    /\ UNCHANGED auxVars

\* Line 78.
Divide ==
    /\ pc = "divide"
    /\ reconstructed' = DivSeq(output, window_sum)
    /\ pc' = "error"
    /\ UNCHANGED <<n_fft, hop_length, signal, window, num_frames, stft_result,
                   frame_idx, frame, windowed, output_length, output, window_sum>>
    /\ UNCHANGED sepVars
    /\ UNCHANGED auxVars

\* Line 86: signal - reconstructed raises ValueError unless the shapes broadcast.
ErrorStep ==
    /\ pc = "error"
    /\ \/ /\ Broadcastable(Len(signal), Len(reconstructed))
          /\ pc' = "done"
       \/ /\ ~Broadcastable(Len(signal), Len(reconstructed))
          /\ pc' = "raised"
    /\ UNCHANGED <<stftVars, sepVars>>
    /\ UNCHANGED auxVars

StftNext ==
    \/ StftFrame
    \/ AllocOutput
    \/ IstftFrame
    \/ Normalize
    \/ Divide
    \/ ErrorStep

SpecStft == StftInit /\ [][StftNext]_vars

(***************************************************************************)
(* compare_stft_librosa.py: the librosa round trip with the parameters of  *)
(* manual_stft_istft (n_fft = 8, hop_length = 2, 16 ones).                 *)
(***************************************************************************)
\* n_fft of compare_stft_librosa.py (line 11)
LibFrameSize == 8

\* librosa.filters.get_window('hann', n, fftbins=True) in units of 1/One: the
\* periodic window 0.5 - 0.5*cos(2*pi*k/n)
GetWindowHann(n) ==
    CASE n = 1 -> <<One>>
      [] n = 2 -> <<0, One>>
      [] n = 4 -> <<0, 500, 1000, 500>>
      [] n = 8 -> <<0, 146, 500, 854, 1000, 854, 500, 146>>

\* compare_stft_librosa.py, line 26, run next to manual_stft_istft
LibGetWindow ==
    /\ pc \in {"stft", "istft", "divide", "error", "done", "raised"}
    /\ lib_window = <<>>
    /\ lib_window' = GetWindowHann(LibFrameSize)
    /\ UNCHANGED <<pc, stftVars, sepVars, diag, mask_nan, mix, prep_input, dl>>

\* Both round-trip scripts, each run once.
WindowsNext ==
    \/ StftNext
    \/ LibGetWindow

SpecWindows == StftInit /\ [][WindowsNext]_vars

(***************************************************************************)
(* Claims about manual_stft_istft                                          *)
(***************************************************************************)
\* The frames pushed so far that cover output index n (0-based)
Covering(n) ==
    {i \in 0..(Len(stft_result) - 1) : i * hop_length <= n /\ n < i * hop_length + n_fft}

\* ceil(n_fft / hop_length): the size of a full set of overlapping frames
FullOverlap == (n_fft + hop_length - 1) \div hop_length

Interior(n) == Cardinality(Covering(n)) = FullOverlap

RECURSIVE SumOver(_, _)
\* sum of f[i] for i in S
SumOver(f, S) ==
    IF S = {} THEN 0
    ELSE LET i == CHOOSE j \in S : TRUE IN f[i] + SumOver(f, S \ {i})

\* sum over the covering frames of the window coefficient met at n, and of its square
CoverSum(n) == SumOver([i \in Covering(n) |-> window[n - i * hop_length + 1]], Covering(n))
CoverSumSq(n) ==
    SumOver([i \in Covering(n) |-> window[n - i * hop_length + 1] * window[n - i * hop_length + 1]],
            Covering(n))

Abs(x) == IF x < 0 THEN 0 - x ELSE x

\* r, in units of 1/One, equals the sample x within 1e-5 relative
WithinTolerance(r, x) == Abs(r - One * x) <= (One * Abs(x)) \div 100000

\* w / One > 1e-8: the accumulator holds whole multiples of 1/One
AboveEpsilon(w) == w >= 1

HasReconstructed == pc \in {"error", "done"}
AllFramesAdded == pc = "istft" /\ frame_idx >= num_frames

\* C1: with hop <= frameSize, the round trip frame -> fft -> ifft -> window ->
\* overlap-add -> normalise returns the original sample at every interior index
\* (read in the claim's favour: at those the window gives some energy to, so
\* that the all-zero np.hanning(2) is not what refutes it).
C1_PerfectReconstruction ==
    (HasReconstructed /\ hop_length <= n_fft) =>
        \A n \in 0..(Len(reconstructed) - 1) :
            (Interior(n) /\ CoverSumSq(n) > 0) =>
                /\ reconstructed[n + 1].fin
                /\ WithinTolerance(reconstructed[n + 1].v, signal[n + 1])

\* C2: once every frame has been added, the normalisation accumulator at each
\* index is the sum of the squared window coefficients of the covering frames.
C2_AccumulatorIsWindowEnergy ==
    AllFramesAdded =>
        \A n \in 0..(Len(window_sum) - 1) : One * window_sum[n + 1] = CoverSumSq(n)

\* C3: frameSize 8, hop 2, 16 ones: the reconstruction is 1.0 at indices 4..11.
C3_OnesScenario ==
    (HasReconstructed /\ n_fft = 8 /\ hop_length = 2 /\ signal = MakeSignal("ones", 16)) =>
        \A n \in 4..11 :
            /\ reconstructed[n + 1].fin
            /\ WithinTolerance(reconstructed[n + 1].v, 1)

\* C4: normalisation divides by 1.0 where the accumulated value is not above
\* 1e-8 and by the accumulated value elsewhere; no sample is divided by zero.
C4_GuardedDivision ==
    /\ [][(pc = "istft" /\ pc' = "divide") =>
            /\ Len(window_sum') = Len(window_sum)
            /\ \A k \in 1..Len(window_sum) :
                  window_sum'[k] = IF AboveEpsilon(window_sum[k])
                                   THEN window_sum[k] ELSE One]_vars
    /\ [](pc = "divide" => \A k \in 1..Len(window_sum) : window_sum[k] # 0)
    /\ [](HasReconstructed =>
            /\ Len(reconstructed) = Len(output)
            /\ \A k \in 1..Len(reconstructed) :
                  /\ reconstructed[k].fin
                  /\ window_sum[k] # 0
                  /\ Abs(reconstructed[k].v * window_sum[k] - output[k]) * 2 <= window_sum[k])

\* Some index was divided by 1.0 because nothing was accumulated there, another
\* by its accumulated value.
C4_Witness ==
    /\ pc = "done"
    /\ \E k \in 1..Len(window_sum) : window_sum[k] = One /\ CoverSum(k - 1) = 0
    /\ \E k \in 1..Len(window_sum) : window_sum[k] # One /\ CoverSum(k - 1) = window_sum[k]
                                     /\ reconstructed[k].v > 0

\* C5: framing yields floor((L - N) / h) + 1 frames when L >= N, none when L < N.
C5_FrameCount ==
    (pc # "stft" \/ frame_idx >= num_frames) =>
        Len(stft_result) =
            IF Len(signal) >= n_fft THEN (Len(signal) - n_fft) \div hop_length + 1 ELSE 0

\* A non-empty signal shorter than one frame went through with no frame.
C5_Witness ==
    /\ pc = "done"
    /\ 0 < Len(signal) /\ Len(signal) < n_fft
    /\ num_frames < 0
    /\ Len(stft_result) = 0

\* C6: frame i is signal[i*hop : i*hop+N] times the window, the slice lies inside
\* the signal and has exactly N samples.
C6_FramesInsideSignal ==
    /\ \A i \in 0..(Len(stft_result) - 1) :
          /\ i * hop_length + n_fft <= Len(signal)
          /\ stft_result[i + 1] =
                Fft([k \in 1..n_fft |-> signal[i * hop_length + k] * window[k]])
    /\ (pc = "stft" /\ frame_idx > 0) =>
          /\ Len(frame) = n_fft
          /\ Len(windowed) = n_fft
          /\ \A k \in 1..n_fft :
                /\ frame[k] = signal[(frame_idx - 1) * hop_length + k]
                /\ windowed[k] = frame[k] * window[k]

\* The last frame of a run of several frames ends exactly at the end of the signal.
C6_Witness ==
    /\ pc = "stft"
    /\ frame_idx = num_frames
    /\ num_frames >= 3
    /\ hop_length > 1
    /\ (frame_idx - 1) * hop_length + n_fft = Len(signal)
    /\ Len(frame) = n_fft

(***************************************************************************)
(* Part 2: the separation pipeline                                         *)
(*                                                                         *)
(* An array is [shape |-> <<C, F, T>>, at |-> values], the values kept at  *)
(* the indices <<c, f, t>> with f a probe bin.  A complex value is         *)
(* <<re, im>>.                                                             *)
(***************************************************************************)
\* The model's frequency-bin count (test_separation.py line 135)
FreqLimit == 2048

Idx(shape) ==
    (0..(shape[1] - 1)) \X (ProbeBins \cap (0..(shape[2] - 1)))
        \X (ProbeFrames \cap (0..(shape[3] - 1)))

\* Bins of librosa.stft for a frame size n: 1 + n // 2
StftBins(n) == 1 + n \div 2

\* The spectrogram of the input: every kept value is distinct and non-zero.
SpecRe(x) == 1 + 2 * (x[1] + 4 * (x[3] + 512 * x[2]))
SpecIm(x) == 0 - (SpecRe(x) + 1)
MakeSpectrogram(c, f, t) ==
    [shape |-> <<c, f, t>>, at |-> [x \in Idx(<<c, f, t>>) |-> <<SpecRe(x), SpecIm(x)>>]]

\* np.real(a), np.imag(a)
RealOf(a) == [shape |-> a.shape, at |-> [x \in DOMAIN a.at |-> a.at[x][1]]]
ImagOf(a) == [shape |-> a.shape, at |-> [x \in DOMAIN a.at |-> a.at[x][2]]]

\* a[:, :n, :]
SliceFreq(a, n) ==
    LET sh == <<a.shape[1], Min(a.shape[2], n), a.shape[3]>>
    IN  [shape |-> sh, at |-> [x \in Idx(sh) |-> a.at[x]]]

\* a[:, :, lo:hi]
SliceTime(a, lo, hi) ==
    LET sh == <<a.shape[1], a.shape[2], Max(0, Min(hi, a.shape[3]) - lo)>>
    IN  [shape |-> sh, at |-> [x \in Idx(sh) |-> a.at[<<x[1], x[2], x[3] + lo>>]]]

\* np.pad(a, ((0, 0), (0, 0), (0, w)), mode='constant')
PadTime(a, w) ==
    LET sh == <<a.shape[1], a.shape[2], a.shape[3] + w>>
    IN  [shape |-> sh,
         at |-> [x \in Idx(sh) |-> IF x[3] < a.shape[3] THEN a.at[x] ELSE 0]]

\* np.stack([p[1][p[2]] for p in planes], axis=0): each plane is <<array, channel>>
StackPlanes(planes) ==
    LET first == planes[1][1]
        sh == <<Len(planes), first.shape[2], first.shape[3]>>
    IN  [shape |-> sh,
         at |-> [x \in Idx(sh) |->
                    planes[x[1] + 1][1].at[<<planes[x[1] + 1][2], x[2], x[3]>>]]]

\* [Left_Real, Left_Imag, Right_Real, Right_Imag]; a single channel fills both sides
StackInputSwapped(rc, ic, ch) ==
    StackPlanes(<< <<rc, 0>>, <<rc, IF ch > 1 THEN 1 ELSE 0>>,
                   <<ic, 0>>, <<ic, IF ch > 1 THEN 1 ELSE 0>> >>)
StackInput(rc, ic, ch) ==
    StackPlanes(<< <<rc, 0>>, <<ic, 0>>,
                   <<rc, IF ch > 1 THEN 1 ELSE 0>>, <<ic, IF ch > 1 THEN 1 ELSE 0>> >>)

\* np.expand_dims(a, axis=0)
ExpandDims(a) == [batch |-> 1, shape |-> a.shape, at |-> a.at]

\* if freq_bins > 2048: part[:, :2048, :]
TruncateFreqOffByOne(a) == IF a.shape[2] > FreqLimit THEN SliceFreq(a, FreqLimit + 1) ELSE a
TruncateFreq(a) == IF a.shape[2] > FreqLimit THEN SliceFreq(a, FreqLimit) ELSE a

\* if chunk.shape[2] < chunk_size: np.pad(chunk, ..., (0, chunk_size - chunk.shape[2]))
PadChunkLeading(a, cs) ==
    IF a.shape[3] < cs
    THEN LET sh == <<a.shape[1], a.shape[2], cs>>
             w == cs - a.shape[3]
         IN  [shape |-> sh,
              at |-> [x \in Idx(sh) |-> IF x[3] >= w THEN a.at[<<x[1], x[2], x[3] - w>>] ELSE 0]]
    ELSE a
PadChunkNever(a, cs) == a
PadChunk(a, cs) == IF a.shape[3] < cs THEN PadTime(a, cs - a.shape[3]) ELSE a

\* (time_frames + chunk_size - 1) // chunk_size
NumChunks(t, cs) == (t + cs - 1) \div cs

\* The value 1.0 of a mask entry: mask values are Gaussian integers in units of 1/5.
MaskOne == 5

\* The inference engine: a tensor of the input's shape whose values depend on the
\* whole input and on the position.  The magnitudes of the mask values are
\* 1.0, 1.0, 0.6, 2.0, 0.8, 0 and 3.0.
MaskPalette == << <<3, 4>>, <<0 - 4, 3>>, <<3, 0>>, <<6, 0 - 8>>, <<0, 0 - 4>>, <<0, 0>>,
                  <<9, 12>> >>
Checksum(a) ==
    LET planes == 0..(a.shape[1] - 1)
        bins == ProbeBins \cap (0..(a.shape[2] - 1))
        frames == ProbeFrames \cap (0..(a.shape[3] - 1))
        row(p, f) == SumOver([t \in frames |-> a.at[<<p, f, t>>] % 7], frames) % 7
        plane(p) == SumOver([f \in bins |-> row(p, f)], bins) % 7
    IN  SumOver([p \in planes |-> plane(p)], planes) % 7
SessionRun(inp) ==
    LET cs == Checksum(inp)
    IN  [batch |-> inp.batch, shape |-> inp.shape,
         at |-> [x \in DOMAIN inp.at |->
                    MaskPalette[1 + ((cs + x[2] + 2 * x[3] + 3 * (x[1] \div 2)) % 7)][1 + (x[1] % 2)]]]

\* np.stack([m[0] + 1j * m[1], m[2] + 1j * m[3]], axis=0)
CombineMask(m) ==
    LET sh == <<2, m.shape[2], m.shape[3]>>
    IN  [shape |-> sh,
         at |-> [x \in Idx(sh) |->
                    <<m.at[<<2 * x[1], x[2], x[3]>>], m.at[<<2 * x[1] + 1, x[2], x[3]>>]>>]]

\* if end_idx - start_idx < chunk_size: combined_mask[:, :, :end_idx - start_idx]
TrimMaskTrailing(m, len, cs) == IF len < cs THEN SliceTime(m, cs - len, cs) ELSE m
TrimMask(m, len, cs) == IF len < cs THEN SliceTime(m, 0, len) ELSE m

\* np.concatenate([a, b], axis=2)
Concat2Swapped(a, b) ==
    LET sh == <<a.shape[1], a.shape[2], a.shape[3] + b.shape[3]>>
    IN  [shape |-> sh,
         at |-> [x \in Idx(sh) |->
                    IF x[3] < b.shape[3] THEN b.at[x]
                    ELSE a.at[<<x[1], x[2], x[3] - b.shape[3]>>]]]
Concat2(a, b) ==
    LET sh == <<a.shape[1], a.shape[2], a.shape[3] + b.shape[3]>>
    IN  [shape |-> sh,
         at |-> [x \in Idx(sh) |->
                    IF x[3] < a.shape[3] THEN a.at[x]
                    ELSE b.at[<<x[1], x[2], x[3] - a.shape[3]>>]]]
RECURSIVE ConcatTime(_)
\* np.concatenate(ms, axis=2) of a non-empty list
ConcatTime(ms) == IF Len(ms) = 1 THEN ms[1] ELSE Concat2(ms[1], ConcatTime(Tail(ms)))

\* np.abs(m) of a mask value, in units of 1/5
Magnitude(m) == CHOOSE r \in 0..(Abs(m[1]) + Abs(m[2])) : r * r = m[1] * m[1] + m[2] * m[2]

\* (1.0 - np.abs(m)) * np.exp(1j * np.angle(m)); np.angle(0) is 0
ComplementClamped(m) ==
    LET mag == Magnitude(m)
    IN  IF mag = 0 THEN <<MaskOne, 0>>
        ELSE IF mag > MaskOne THEN <<0, 0>>
        ELSE <<(m[1] * (MaskOne - mag)) \div mag, (m[2] * (MaskOne - mag)) \div mag>>
ComplementValue(m) ==
    LET mag == Magnitude(m)
    IN  IF mag = 0 THEN <<MaskOne, 0>>
        ELSE <<(m[1] * (MaskOne - mag)) \div mag, (m[2] * (MaskOne - mag)) \div mag>>
Complement(mask) ==
    [shape |-> mask.shape, at |-> [x \in DOMAIN mask.at |-> ComplementValue(mask.at[x])]]

\* numpy broadcasting of two shapes of the same rank
Broadcasts(sa, sb) == \A k \in 1..3 : sa[k] = sb[k] \/ sa[k] = 1 \/ sb[k] = 1
BIndex(sh, x) == [k \in 1..3 |-> IF sh[k] = 1 THEN 0 ELSE x[k]]

\* complex product, the mask factor in units of 1/5
CMul(a, b) == <<a[1] * b[1] - a[2] * b[2], a[1] * b[2] + a[2] * b[1]>>

\* spectrogram * mask
ApplyMask(spec, mask) ==
    LET sh == [k \in 1..3 |-> Max(spec.shape[k], mask.shape[k])]
    IN  [shape |-> sh,
         at |-> [x \in Idx(sh) |->
                    CMul(spec.at[BIndex(spec.shape, x)], mask.at[BIndex(mask.shape, x)])]]

\* librosa.istft without n_fft: the frame size is inferred from the bins, 2 * (bins - 1)
IstftFrameSize(bins) == 2 * (bins - 1)

\* manual_stft_istft is not running.
StftIdle ==
    /\ n_fft = 0
    /\ hop_length = 0
    /\ signal = <<>>
    /\ window = <<>>
    /\ num_frames = 0
    /\ stft_result = <<>>
    /\ frame_idx = 0
    /\ frame = <<>>
    /\ windowed = <<>>
    /\ output_length = 0
    /\ output = <<>>
    /\ window_sum = <<>>
    /\ reconstructed = <<>>

\* main() up to the mix: the array handed to stft_transform and the parameters.
SepInit ==
    /\ StftIdle
    /\ \E c \in 1..MaxChannels, t \in 1..MaxFrames : audio = [channels |-> c, frames |-> t]
    /\ stft_n_fft \in SepFftSizes
    /\ chunk_size \in 1..MaxChunk
    /\ spectrogram = <<>>
    /\ real_part = <<>>
    /\ imag_part = <<>>
    /\ channels = 0
    /\ freq_bins = 0
    /\ time_frames = 0
    /\ num_chunks = 0
    /\ chunk_i = 0
    /\ input_data = <<>>
    /\ masks = <<>>
    /\ full_mask = <<>>
    /\ instrumental_mask = <<>>
    /\ spectrogram_adjusted = <<>>
    /\ vocal_spec = <<>>
    /\ inst_spec = <<>>
    /\ istft_n_fft = 0
    /\ saved = {}
    /\ calls = <<>>
    /\ pc = "sep_stft"
    /\ AuxIdle

\* stft_transform (lines 45-69)
StftTransform ==
    /\ pc = "sep_stft"
    /\ spectrogram' = MakeSpectrogram(audio.channels, StftBins(stft_n_fft), audio.frames)
    /\ pc' = "sep_prepare"
    /\ UNCHANGED <<audio, stft_n_fft, chunk_size, real_part, imag_part, channels,
                   freq_bins, time_frames, num_chunks, chunk_i, input_data, masks,
                   full_mask, instrumental_mask, spectrogram_adjusted, vocal_spec,
                   inst_spec, istft_n_fft, saved>>
    /\ UNCHANGED <<stftVars, calls>>
    /\ UNCHANGED auxVars

\* run_onnx_inference up to the chunk loop (lines 128-145)
PrepareParts ==
    /\ pc = "sep_prepare"
    /\ channels' = spectrogram.shape[1]
    /\ time_frames' = spectrogram.shape[3]
    /\ real_part' = TruncateFreq(RealOf(spectrogram))
    /\ imag_part' = TruncateFreq(ImagOf(spectrogram))
    /\ freq_bins' = IF spectrogram.shape[2] > FreqLimit THEN FreqLimit
                    ELSE spectrogram.shape[2]
    /\ num_chunks' = NumChunks(time_frames', chunk_size)
    /\ masks' = <<>>
    /\ chunk_i' = 0
    /\ pc' = "sep_chunk"
    /\ UNCHANGED <<audio, stft_n_fft, chunk_size, spectrogram, input_data,
                   full_mask, instrumental_mask, spectrogram_adjusted, vocal_spec,
                   inst_spec, istft_n_fft, saved>>
    /\ UNCHANGED <<stftVars, calls>>
    /\ UNCHANGED auxVars

\* One pass of the chunk loop up to the inference call (lines 150-173)
BuildChunk ==
    /\ pc = "sep_chunk"
    /\ chunk_i < num_chunks
    /\ LET start_idx == chunk_i * chunk_size
           end_idx == Min((chunk_i + 1) * chunk_size, time_frames)
           real_chunk == PadChunk(SliceTime(real_part, start_idx, end_idx), chunk_size)
           imag_chunk == PadChunk(SliceTime(imag_part, start_idx, end_idx), chunk_size)
       IN  input_data' = ExpandDims(StackInput(real_chunk, imag_chunk, channels))
    /\ pc' = "sep_infer"
    /\ UNCHANGED <<audio, stft_n_fft, chunk_size, spectrogram, real_part, imag_part,
                   channels, freq_bins, time_frames, num_chunks, chunk_i, masks,
                   full_mask, instrumental_mask, spectrogram_adjusted, vocal_spec,
                   inst_spec, istft_n_fft, saved>>
    /\ UNCHANGED <<stftVars, calls>>
    /\ UNCHANGED auxVars

\* session.run returns; the chunk's mask is trimmed and kept (lines 176-190)
InferChunkSharedBuffer ==
    /\ pc = "sep_infer"
    /\ LET start_idx == chunk_i * chunk_size
           end_idx == Min((chunk_i + 1) * chunk_size, time_frames)
           mask_chunk == SessionRun(input_data)
           combined_mask == TrimMask(CombineMask(mask_chunk), end_idx - start_idx, chunk_size)
       IN  masks' = [k \in 1..(Len(masks) + 1) |-> combined_mask]
    /\ chunk_i' = chunk_i + 1
    /\ pc' = "sep_chunk"
    /\ UNCHANGED <<audio, stft_n_fft, chunk_size, spectrogram, real_part, imag_part,
                   channels, freq_bins, time_frames, num_chunks, input_data,
                   full_mask, instrumental_mask, spectrogram_adjusted, vocal_spec,
                   inst_spec, istft_n_fft, saved>>
    /\ calls' = Append(calls, [input |-> input_data, ok |-> TRUE,
                              output |-> SessionRun(input_data)])
    /\ UNCHANGED stftVars
    /\ UNCHANGED auxVars
InferChunk ==
    /\ pc = "sep_infer"
    /\ LET start_idx == chunk_i * chunk_size
           end_idx == Min((chunk_i + 1) * chunk_size, time_frames)
           mask_chunk == SessionRun(input_data)
           combined_mask == TrimMask(CombineMask(mask_chunk), end_idx - start_idx, chunk_size)
       IN  masks' = Append(masks, combined_mask)
    /\ chunk_i' = chunk_i + 1
    /\ pc' = "sep_chunk"
    /\ UNCHANGED <<audio, stft_n_fft, chunk_size, spectrogram, real_part, imag_part,
                   channels, freq_bins, time_frames, num_chunks, input_data,
                   full_mask, instrumental_mask, spectrogram_adjusted, vocal_spec,
                   inst_spec, istft_n_fft, saved>>
    /\ calls' = Append(calls, [input |-> input_data, ok |-> TRUE,
                              output |-> SessionRun(input_data)])
    /\ UNCHANGED stftVars
    /\ \E anomaly \in BOOLEAN : mask_nan' = (mask_nan \/ anomaly)
    /\ UNCHANGED <<lib_window, diag, mix, prep_input, dl>>

\* session.run raises: nothing catches it, the script ends
InferRetries ==
    /\ pc = "sep_infer"
    /\ calls' = Append(calls, [input |-> input_data, ok |-> FALSE, output |-> <<>>])
    /\ pc' = "sep_infer"
    /\ UNCHANGED <<audio, stft_n_fft, chunk_size, spectrogram, real_part, imag_part,
                   channels, freq_bins, time_frames, num_chunks, chunk_i, input_data,
                   masks, full_mask, instrumental_mask, spectrogram_adjusted,
                   vocal_spec, inst_spec, istft_n_fft, saved>>
    /\ UNCHANGED stftVars
    /\ UNCHANGED auxVars
InferRaises ==
    /\ pc = "sep_infer"
    /\ calls' = Append(calls, [input |-> input_data, ok |-> FALSE, output |-> <<>>])
    /\ pc' = "sep_failed"
    /\ UNCHANGED <<audio, stft_n_fft, chunk_size, spectrogram, real_part, imag_part,
                   channels, freq_bins, time_frames, num_chunks, chunk_i, input_data,
                   masks, full_mask, instrumental_mask, spectrogram_adjusted,
                   vocal_spec, inst_spec, istft_n_fft, saved>>
    /\ UNCHANGED stftVars
    /\ UNCHANGED auxVars

\* The loop has ended: np.concatenate(masks, axis=2) (line 198)
ConcatMasks ==
    /\ pc = "sep_chunk"
    /\ chunk_i >= num_chunks
    /\ full_mask' = ConcatTime(masks)
    /\ pc' = "sep_adjust"
    /\ UNCHANGED <<audio, stft_n_fft, chunk_size, spectrogram, real_part, imag_part,
                   channels, freq_bins, time_frames, num_chunks, chunk_i, input_data,
                   masks, instrumental_mask, spectrogram_adjusted, vocal_spec,
                   inst_spec, istft_n_fft, saved>>
    /\ UNCHANGED <<stftVars, calls>>
    /\ UNCHANGED auxVars

\* main, lines 321-326
AdjustAndComplement ==
    /\ pc = "sep_adjust"
    /\ spectrogram_adjusted' = SliceFreq(spectrogram, FreqLimit)
    /\ instrumental_mask' = Complement(full_mask)
    /\ pc' = "sep_apply"
    /\ UNCHANGED <<audio, stft_n_fft, chunk_size, spectrogram, real_part, imag_part,
                   channels, freq_bins, time_frames, num_chunks, chunk_i, input_data,
                   masks, full_mask, vocal_spec, inst_spec, istft_n_fft, saved>>
    /\ UNCHANGED <<stftVars, calls>>
    /\ UNCHANGED auxVars

\* apply_mask twice (lines 329-330)
ApplyMasksThenSave ==
    /\ pc = "sep_apply"
    /\ Broadcasts(spectrogram_adjusted.shape, full_mask.shape)
    /\ vocal_spec' = ApplyMask(spectrogram_adjusted, full_mask)
    /\ inst_spec' = ApplyMask(spectrogram_adjusted, instrumental_mask)
    /\ pc' = "sep_save_vocals"
    /\ UNCHANGED <<audio, stft_n_fft, chunk_size, spectrogram, real_part, imag_part,
                   channels, freq_bins, time_frames, num_chunks, chunk_i, input_data,
                   masks, full_mask, instrumental_mask, spectrogram_adjusted,
                   istft_n_fft, saved>>
    /\ UNCHANGED <<stftVars, calls>>
    /\ UNCHANGED auxVars
ApplyMasks ==
    /\ pc = "sep_apply"
    /\ Broadcasts(spectrogram_adjusted.shape, full_mask.shape)
    /\ vocal_spec' = ApplyMask(spectrogram_adjusted, full_mask)
    /\ inst_spec' = ApplyMask(spectrogram_adjusted, instrumental_mask)
    /\ pc' = "sep_istft"
    /\ UNCHANGED <<audio, stft_n_fft, chunk_size, spectrogram, real_part, imag_part,
                   channels, freq_bins, time_frames, num_chunks, chunk_i, input_data,
                   masks, full_mask, instrumental_mask, spectrogram_adjusted,
                   istft_n_fft, saved>>
    /\ UNCHANGED <<stftVars, calls>>
    /\ UNCHANGED auxVars

\* spectrogram * mask raises ValueError: the shapes do not broadcast
ApplyRaises ==
    /\ pc = "sep_apply"
    /\ ~Broadcasts(spectrogram_adjusted.shape, full_mask.shape)
    /\ pc' = "sep_failed"
    /\ UNCHANGED <<sepVars, stftVars>>
    /\ UNCHANGED auxVars

\* istft_transform twice (lines 333-334)
IstftTransform ==
    /\ pc = "sep_istft"
    /\ istft_n_fft' = IstftFrameSize(vocal_spec.shape[2])
    /\ pc' = "sep_save_vocals"
    /\ UNCHANGED <<audio, stft_n_fft, chunk_size, spectrogram, real_part, imag_part,
                   channels, freq_bins, time_frames, num_chunks, chunk_i, input_data,
                   masks, full_mask, instrumental_mask, spectrogram_adjusted,
                   vocal_spec, inst_spec, saved>>
    /\ UNCHANGED <<stftVars, calls>>
    /\ UNCHANGED auxVars

\* save_audio(vocals, ...) (line 340)
SaveVocals ==
    /\ pc = "sep_save_vocals"
    /\ saved' = saved \cup {"vocals"}
    /\ pc' = "sep_save_instrumental"
    /\ UNCHANGED <<audio, stft_n_fft, chunk_size, spectrogram, real_part, imag_part,
                   channels, freq_bins, time_frames, num_chunks, chunk_i, input_data,
                   masks, full_mask, instrumental_mask, spectrogram_adjusted,
                   vocal_spec, inst_spec, istft_n_fft>>
    /\ UNCHANGED <<stftVars, calls>>
    /\ UNCHANGED auxVars

\* save_audio(instrumental, ...) (line 341)
SaveInstrumental ==
    /\ pc = "sep_save_instrumental"
    /\ saved' = saved \cup {"instrumental"}
    /\ pc' = "sep_done"
    /\ UNCHANGED <<audio, stft_n_fft, chunk_size, spectrogram, real_part, imag_part,
                   channels, freq_bins, time_frames, num_chunks, chunk_i, input_data,
                   masks, full_mask, instrumental_mask, spectrogram_adjusted,
                   vocal_spec, inst_spec, istft_n_fft>>
    /\ UNCHANGED <<stftVars, calls>>
    /\ UNCHANGED auxVars

\* sf.write raises in either save_audio: the script ends
SaveRaises ==
    /\ pc \in {"sep_save_vocals", "sep_save_instrumental"}
    /\ pc' = "sep_failed"
    /\ UNCHANGED <<sepVars, stftVars>>
    /\ UNCHANGED auxVars

\* One of the two scripts ended with an uncaught exception.
SepFailed == pc = "sep_failed"

SepNext ==
    \/ StftTransform
    \/ PrepareParts
    \/ BuildChunk
    \/ InferChunk
    \/ InferRaises
    \/ ConcatMasks
    \/ AdjustAndComplement
    \/ ApplyMasks
    \/ ApplyRaises
    \/ IstftTransform
    \/ SaveVocals
    \/ SaveInstrumental
    \/ SaveRaises

SpecSep == SepInit /\ [][SepNext]_vars

\* The steps the script takes by itself.  Whether session.run returns (InferChunk,
\* InferRaises) is up to the inference engine: the call has no timeout (line 176).
ScriptStep ==
    \/ StftTransform
    \/ PrepareParts
    \/ BuildChunk
    \/ ConcatMasks
    \/ AdjustAndComplement
    \/ ApplyMasks
    \/ ApplyRaises
    \/ IstftTransform
    \/ SaveVocals
    \/ SaveInstrumental
    \/ SaveRaises

\* main() with the interpreter always running the script's next line.
SpecSepLive == SepInit /\ [][SepNext]_vars /\ WF_vars(ScriptStep)

(***************************************************************************)
(* Part 3: prepare_model_input (python/verify_coreml.py)                   *)
(***************************************************************************)
\* Time frames of the spectrograms handed to prepare_model_input
PrepFrames == (1..MaxFrames) \cup ((PrepChunk - 1)..(PrepChunk + 2))

\* if time_frames > chunk_size: part[:, :, :chunk_size]
\* elif time_frames < chunk_size: np.pad(part, ..., (0, chunk_size - time_frames))
AdjustTimeNoPad(a, cs) ==
    IF a.shape[3] > cs THEN SliceTime(a, 0, cs) ELSE a
AdjustTimeKeepingAll(a, cs) ==
    IF a.shape[3] < cs THEN PadTime(a, cs - a.shape[3]) ELSE a
AdjustTime(a, cs) ==
    IF a.shape[3] > cs THEN SliceTime(a, 0, cs)
    ELSE IF a.shape[3] < cs THEN PadTime(a, cs - a.shape[3])
    ELSE a

\* prepare_model_input is called with a spectrogram of any shape.
PrepInit ==
    /\ StftIdle
    /\ audio = <<>>
    /\ stft_n_fft \in SepFftSizes
    /\ chunk_size = 0
    /\ \E c \in 1..MaxChannels, t \in PrepFrames :
          spectrogram = MakeSpectrogram(c, StftBins(stft_n_fft), t)
    /\ real_part = <<>>
    /\ imag_part = <<>>
    /\ channels = 0
    /\ freq_bins = 0
    /\ time_frames = 0
    /\ num_chunks = 0
    /\ chunk_i = 0
    /\ input_data = <<>>
    /\ masks = <<>>
    /\ full_mask = <<>>
    /\ instrumental_mask = <<>>
    /\ spectrogram_adjusted = <<>>
    /\ vocal_spec = <<>>
    /\ inst_spec = <<>>
    /\ istft_n_fft = 0
    /\ saved = {}
    /\ calls = <<>>
    /\ pc = "prep_split"
    /\ AuxIdle

\* Lines 76-86: real and imaginary parts, cut to 2048 bins
PrepSplit ==
    /\ pc = "prep_split"
    /\ channels' = spectrogram.shape[1]
    /\ time_frames' = spectrogram.shape[3]
    /\ real_part' = TruncateFreq(RealOf(spectrogram))
    /\ imag_part' = TruncateFreq(ImagOf(spectrogram))
    /\ freq_bins' = IF spectrogram.shape[2] > FreqLimit THEN FreqLimit
                    ELSE spectrogram.shape[2]
    /\ pc' = "prep_time"
    /\ UNCHANGED <<audio, stft_n_fft, chunk_size, spectrogram, num_chunks, chunk_i,
                   input_data, masks, full_mask, instrumental_mask,
                   spectrogram_adjusted, vocal_spec, inst_spec, istft_n_fft, saved>>
    /\ UNCHANGED <<stftVars, calls>>
    /\ UNCHANGED auxVars

\* Lines 88-99: the time axis is brought to 256 frames
PrepAdjustTime ==
    /\ pc = "prep_time"
    /\ chunk_size' = PrepChunk
    /\ real_part' = AdjustTime(real_part, PrepChunk)
    /\ imag_part' = AdjustTime(imag_part, PrepChunk)
    /\ time_frames' = PrepChunk
    /\ pc' = "prep_stack"
    /\ UNCHANGED <<audio, stft_n_fft, spectrogram, channels, freq_bins, num_chunks,
                   chunk_i, input_data, masks, full_mask, instrumental_mask,
                   spectrogram_adjusted, vocal_spec, inst_spec, istft_n_fft, saved>>
    /\ UNCHANGED <<stftVars, calls>>
    /\ UNCHANGED auxVars

\* Lines 101-112: the four planes are stacked and returned
PrepStack ==
    /\ pc = "prep_stack"
    /\ input_data' = ExpandDims(StackInput(real_part, imag_part, channels))
    /\ pc' = "prep_done"
    /\ UNCHANGED <<audio, stft_n_fft, chunk_size, spectrogram, real_part, imag_part,
                   channels, freq_bins, time_frames, num_chunks, chunk_i, masks,
                   full_mask, instrumental_mask, spectrogram_adjusted, vocal_spec,
                   inst_spec, istft_n_fft, saved>>
    /\ UNCHANGED <<stftVars, calls>>
    /\ UNCHANGED auxVars

PrepNext ==
    \/ PrepSplit
    \/ PrepAdjustTime
    \/ PrepStack

SpecPrep == PrepInit /\ [][PrepNext]_vars

\* Every routine that builds an inference tensor: run_onnx_inference inside the
\* pipeline, and prepare_model_input.
TensorInit == SepInit \/ PrepInit

TensorNext ==
    \/ StftTransform
    \/ PrepareParts
    \/ BuildChunk
    \/ InferChunk
    \/ InferRaises
    \/ ConcatMasks
    \/ AdjustAndComplement
    \/ ApplyMasks
    \/ ApplyRaises
    \/ IstftTransform
    \/ SaveVocals
    \/ SaveInstrumental
    \/ SaveRaises
    \/ PrepSplit
    \/ PrepAdjustTime
    \/ PrepStack

SpecTensors == TensorInit /\ [][TensorNext]_vars

(***************************************************************************)
(* prepare_model_input beside run_onnx_inference: the same spectrogram is  *)
(* handed first to prepare_model_input, whose result is kept, and then to  *)
(* run_onnx_inference as main calls it.                                    *)
(***************************************************************************)
\* chunk_size as main passes it (test_separation.py line 318)
MainChunk == 256

\* prepare_model_input returns (line 112); its locals are gone, and the
\* spectrogram goes to run_onnx_inference(model_path, spectrogram, chunk_size=256)
PrepReturn ==
    /\ pc = "prep_done"
    /\ prep_input' = input_data
    /\ chunk_size' = MainChunk
    /\ real_part' = <<>>
    /\ imag_part' = <<>>
    /\ channels' = 0
    /\ freq_bins' = 0
    /\ time_frames' = 0
    /\ input_data' = <<>>
    /\ pc' = "sep_prepare"
    /\ UNCHANGED <<audio, stft_n_fft, spectrogram, num_chunks, chunk_i, masks,
                   full_mask, instrumental_mask, spectrogram_adjusted, vocal_spec,
                   inst_spec, istft_n_fft, saved>>
    /\ UNCHANGED <<stftVars, calls>>
    /\ UNCHANGED <<lib_window, diag, mask_nan, mix, dl>>

EquivNext ==
    \/ PrepSplit
    \/ PrepAdjustTime
    \/ PrepStack
    \/ PrepReturn
    \/ PrepareParts
    \/ BuildChunk
    \/ InferChunk
    \/ InferRaises

SpecEquiv == PrepInit /\ [][EquivNext]_vars

(***************************************************************************)
(* The 440 Hz diagnostics: compare_dft_single_frame.py,                    *)
(* debug_stft_comparison.py and compare_stft_direct.py each name the bin   *)
(* of the 440 Hz test tone.                                                *)
(***************************************************************************)
\* The tone of the diagnostics (compare_dft_single_frame.py line 11)
ToneHz == 440
\* Tones tried around it by compare_dft_single_frame.py's formula
ToneSpread == 10
DiagFftSizes == {1024, 2048, 4096, 8192}
DiagSampleRates == {22050, 44100, 48000}
\* The bin compare_stft_direct.py reads (line 49)
DirectBin == 40

\* int(np.round(f * n / sr)): np.round rounds a half to the even neighbour
RoundBin(f, n, sr) ==
    LET up == (2 * f * n + sr) \div (2 * sr)
    IN  IF (2 * f * n + sr) % (2 * sr) = 0 /\ up % 2 = 1 THEN up - 1 ELSE up

\* int(f * n / sr): int() cuts the fraction off
TruncBin(f, n, sr) == (f * n) \div sr

DiagInit ==
    /\ StftIdle
    /\ SepIdle
    /\ AuxIdleBut({"diag"})
    /\ \/ \E f \in (ToneHz - ToneSpread)..(ToneHz + ToneSpread),
             n \in DiagFftSizes, sr \in DiagSampleRates :
             diag = [script |-> "compare_dft_single_frame", frequency |-> f,
                     n_fft |-> n, sr |-> sr, bin |-> 0 - 1]
       \/ \E n \in DiagFftSizes, sr \in DiagSampleRates :
             diag = [script |-> "debug_stft_comparison", frequency |-> ToneHz,
                     n_fft |-> n, sr |-> sr, bin |-> 0 - 1]
       \/ diag = [script |-> "compare_stft_direct", frequency |-> ToneHz,
                  n_fft |-> 4096, sr |-> 44100, bin |-> 0 - 1]
    /\ pc = "diag_start"

\* compare_dft_single_frame.py line 52
DftSingleFrameBin ==
    /\ pc = "diag_start"
    /\ diag.script = "compare_dft_single_frame"
    /\ diag' = [diag EXCEPT !.bin = RoundBin(diag.frequency, diag.n_fft, diag.sr)]
    /\ pc' = "diag_read"
    /\ UNCHANGED <<stftVars, sepVars, lib_window, mask_nan, mix, prep_input, dl>>

\* debug_stft_comparison.py line 52
DebugStftBin ==
    /\ pc = "diag_start"
    /\ diag.script = "debug_stft_comparison"
    /\ diag' = [diag EXCEPT !.bin = TruncBin(ToneHz, diag.n_fft, diag.sr)]
    /\ pc' = "diag_read"
    /\ UNCHANGED <<stftVars, sepVars, lib_window, mask_nan, mix, prep_input, dl>>

\* compare_stft_direct.py line 49
StftDirectBin ==
    /\ pc = "diag_start"
    /\ diag.script = "compare_stft_direct"
    /\ diag' = [diag EXCEPT !.bin = DirectBin]
    /\ pc' = "diag_read"
    /\ UNCHANGED <<stftVars, sepVars, lib_window, mask_nan, mix, prep_input, dl>>

DiagNext ==
    \/ DftSingleFrameBin
    \/ DebugStftBin
    \/ StftDirectBin

SpecDiag == DiagInit /\ [][DiagNext]_vars

(***************************************************************************)
(* The mix of main() (python/test_separation.py lines 279-304).  An audio  *)
(* array is the sequence of its channels, each the sequence of its         *)
(* samples; None is <<>>.                                                  *)
(***************************************************************************)
\* The tracks main mixes (lines 269-273)
NumTracks == 3
MaxTrackLen == 3

\* What librosa.load(path, mono=False) returns for track j: a 1-D array for a
\* mono file, [2, len] for a stereo file; every sample is marked with its
\* track, channel and position.
LibrosaLoad(j, file) ==
    IF file.channels = 1
    THEN [ndim |-> 1, data |-> [k \in 1..file.len |-> 100 * j + k]]
    ELSE [ndim |-> 2,
          data |-> [c \in 1..2 |-> [k \in 1..file.len |-> 100 * j + 10 * c + k]]]

\* load_audio (lines 18-42): a mono file becomes two channels
LoadAudioRightSilent(j, file) ==
    LET a == LibrosaLoad(j, file)
    IN  IF a.ndim = 1 THEN <<a.data, [k \in 1..Len(a.data) |-> 0]>> ELSE a.data
LoadAudio(j, file) ==
    LET a == LibrosaLoad(j, file)
    IN  IF a.ndim = 1 THEN <<a.data, a.data>> ELSE a.data

\* a[:, :n]
SliceSamples(a, n) == [c \in 1..Len(a) |-> PySlice(a[c], 0, n)]

\* mixed_audio[:, :min_len] + audio[:, :min_len] (lines 292-293)
MixInto(mixed, a) ==
    LET min_len == Min(Len(mixed[1]), Len(a[1]))
        m == SliceSamples(mixed, min_len)
        b == SliceSamples(a, min_len)
    IN  [c \in 1..Len(m) |-> [k \in 1..min_len |-> m[c][k] + b[c][k]]]

\* np.max(np.abs(a))
MaxAbs(a) ==
    LET vals == {Abs(a[c][k]) : c \in 1..Len(a), k \in 1..Len(a[1])}
    IN  CHOOSE v \in vals : \A w \in vals : w <= v

\* a / np.max(np.abs(a)) in units of 1/One (line 302)
NormalizePeak(a) ==
    LET peak == MaxAbs(a)
    IN  [c \in 1..Len(a) |-> [k \in 1..Len(a[c]) |-> (a[c][k] * One) \div peak]]

TrackFiles ==
    {[exists |-> FALSE, channels |-> 0, len |-> 0]}
        \cup [exists : {TRUE}, channels : {1, 2}, len : 1..MaxTrackLen]

MixInit ==
    /\ StftIdle
    /\ SepIdle
    /\ AuxIdleBut({"mix"})
    /\ \E t \in [1..NumTracks -> TrackFiles] :
          mix = [tracks |-> t, i |-> 0, audio |-> <<>>, mixed_audio |-> <<>>]
    /\ pc = "mix_loop"

\* One pass of the loop over the tracks (lines 284-295)
MixTrack ==
    /\ pc = "mix_loop"
    /\ mix.i < NumTracks
    /\ LET j == mix.i + 1
           file == mix.tracks[j]
       IN  IF file.exists
           THEN LET a == LoadAudio(j, file)
                IN  mix' = [mix EXCEPT !.i = j, !.audio = a,
                                       !.mixed_audio = IF mix.mixed_audio = <<>> THEN a
                                                       ELSE MixInto(mix.mixed_audio, a)]
           ELSE mix' = [mix EXCEPT !.i = j]
    /\ UNCHANGED <<pc, stftVars, sepVars, lib_window, diag, mask_nan, prep_input, dl>>

\* Lines 297-304: no track was found and main exits, or the mix is normalised
MixFinish ==
    /\ pc = "mix_loop"
    /\ mix.i >= NumTracks
    /\ \/ /\ mix.mixed_audio = <<>>
          /\ pc' = "mix_exit"
          /\ UNCHANGED mix
       \/ /\ mix.mixed_audio # <<>>
          /\ mix' = [mix EXCEPT !.mixed_audio = NormalizePeak(mix.mixed_audio)]
          /\ pc' = "mix_done"
    /\ UNCHANGED <<stftVars, sepVars, lib_window, diag, mask_nan, prep_input, dl>>

MixNext ==
    \/ MixTrack
    \/ MixFinish

SpecMix == MixInit /\ [][MixNext]_vars

(***************************************************************************)
(* python/download_model.py: download_model and download_file.  The file   *)
(* at output_path is [exists, data]; data is the sequence of the chunks    *)
(* written, and a file from an earlier download holds the chunk "old".     *)
(***************************************************************************)
\* Chunks response.iter_content yields at most
MaxBody == 3

NoFile == [exists |-> FALSE, data |-> <<>>]
OldFile == [exists |-> TRUE, data |-> <<"old">>]

\* Response bodies: each chunk is empty ("") or holds bytes ("b")
Bodies == UNION {[1..n -> {"", "b"}] : n \in 0..MaxBody}

\* open(output_path, 'wb'): the file exists and is empty
OpenForWrite(file) == [exists |-> TRUE, data |-> <<>>]

\* if chunk: f.write(chunk)
WriteChunk(file, chunk) ==
    IF chunk # "" THEN [file EXCEPT !.data = Append(@, chunk)] ELSE file

\* if output_path.exists(): output_path.unlink()
UnlinkIfExistsKeeping(file) == file
UnlinkIfExists(file) == IF file.exists THEN NoFile ELSE file

\* download_model(model_key, models_dir) is called: the key is known or not,
\* a file is at output_path or not, the user will answer y or not, and the
\* server will send some body.
DownloadInit ==
    /\ StftIdle
    /\ SepIdle
    /\ AuxIdleBut({"dl"})
    /\ \E known \in BOOLEAN, old \in BOOLEAN, again \in BOOLEAN, body \in Bodies :
          dl = [known |-> known, existed |-> old, again |-> again, body |-> body,
                file |-> IF old THEN OldFile ELSE NoFile,
                got |-> 0, failed_at |-> "", result |-> "none"]
    /\ pc = "dl_model"

DlKeep == UNCHANGED <<stftVars, sepVars, lib_window, diag, mask_nan, mix, prep_input>>

\* download_model up to the call of download_file (lines 104-120)
DownloadModel ==
    /\ pc = "dl_model"
    /\ IF ~dl.known
       THEN dl' = [dl EXCEPT !.result = "false"] /\ pc' = "dl_end"
       ELSE IF dl.file.exists /\ ~dl.again
       THEN dl' = [dl EXCEPT !.result = "true"] /\ pc' = "dl_end"
       ELSE dl' = dl /\ pc' = "dl_get"
    /\ DlKeep

\* requests.get(url, stream=True, timeout=30) returns a response (line 54)
RequestsGet ==
    /\ pc = "dl_get"
    /\ pc' = "dl_status"
    /\ UNCHANGED dl
    /\ DlKeep

\* response.raise_for_status() passes; the file is opened for writing (55-59)
OpenOutput ==
    /\ pc = "dl_status"
    /\ dl' = [dl EXCEPT !.file = OpenForWrite(@)]
    /\ pc' = "dl_iter"
    /\ DlKeep

\* One chunk of response.iter_content is written (lines 66-69)
IterChunk ==
    /\ pc = "dl_iter"
    /\ dl.got < Len(dl.body)
    /\ dl' = [dl EXCEPT !.got = @ + 1, !.file = WriteChunk(@, dl.body[dl.got + 1])]
    /\ DlKeep
    /\ UNCHANGED pc

\* The body is through: the file is closed and download_file returns True (71-73)
DownloadComplete ==
    /\ pc = "dl_iter"
    /\ dl.got = Len(dl.body)
    /\ dl' = [dl EXCEPT !.result = "true"]
    /\ pc' = "dl_end"
    /\ DlKeep

\* requests.get, raise_for_status or iter_content raises a RequestException:
\* the with block has closed the file, the handler runs (lines 75-80)
RequestError ==
    /\ pc \in {"dl_get", "dl_status", "dl_iter"}
    /\ dl' = [dl EXCEPT !.failed_at = pc, !.file = UnlinkIfExists(@), !.result = "false"]
    /\ pc' = "dl_end"
    /\ DlKeep

DownloadNext ==
    \/ DownloadModel
    \/ RequestsGet
    \/ OpenOutput
    \/ IterChunk
    \/ DownloadComplete
    \/ RequestError

SpecDownload == DownloadInit /\ [][DownloadNext]_vars

(***************************************************************************)
(* Claims about the separation pipeline and the tensor builders            *)
(***************************************************************************)
\* C7: the inverse transform works with the frame size the forward transform
\* used, also after the cut to 2048 bins.
C7_SameFrameSize ==
    (pc \in {"sep_save_vocals", "sep_save_instrumental", "sep_done"}) =>
        istft_n_fft = stft_n_fft

\* The running chunk's slice of the spectrogram: [ChunkStart, ChunkEnd)
ChunkStart == chunk_i * chunk_size
ChunkEnd == IF (chunk_i + 1) * chunk_size <= time_frames
            THEN (chunk_i + 1) * chunk_size ELSE time_frames

\* The spectrogram value plane p of an inference tensor carries at bin f, frame t:
\* planes 0, 1 the real and imaginary part of channel 0, planes 2, 3 those of
\* channel 1 (of channel 0 when there is one channel only)
PlaneValue(p, f, t) ==
    spectrogram.at[<<IF p >= 2 /\ spectrogram.shape[1] > 1 THEN 1 ELSE 0, f, t>>][1 + (p % 2)]

\* C8: a slice of L < chunkFrames frames gives a tensor of chunkFrames columns,
\* the first L the slice's values in every plane, the others exactly zero.
C8_TrailingZeroPadding ==
    /\ (pc = "sep_infer" /\ ChunkEnd - ChunkStart < chunk_size) =>
          /\ input_data.shape[3] = chunk_size
          /\ \A x \in DOMAIN input_data.at :
                input_data.at[x] =
                    IF x[3] < ChunkEnd - ChunkStart
                    THEN PlaneValue(x[1], x[2], ChunkStart + x[3])
                    ELSE 0
          /\ \A p \in 0..3, f \in ProbeBins \cap (0..(freq_bins - 1)),
                t \in ProbeFrames \cap (0..(chunk_size - 1)) :
                <<p, f, t>> \in DOMAIN input_data.at
    /\ (pc = "prep_done" /\ spectrogram.shape[3] < PrepChunk) =>
          /\ input_data.shape[3] = PrepChunk
          /\ \A x \in DOMAIN input_data.at :
                input_data.at[x] =
                    IF x[3] < spectrogram.shape[3] THEN PlaneValue(x[1], x[2], x[3]) ELSE 0
          /\ \A p \in 0..3, f \in ProbeBins \cap (0..(freq_bins - 1)),
                t \in ProbeFrames \cap (0..(PrepChunk - 1)) :
                <<p, f, t>> \in DOMAIN input_data.at

\* The last chunk of a run of several holds two frames and one padded column.
C8_Witness ==
    /\ pc = "sep_infer"
    /\ chunk_i > 0
    /\ chunk_size = 3
    /\ ChunkEnd - ChunkStart = 2
    /\ input_data.at[<<3, 0, 1>>] # 0
    /\ input_data.at[<<3, 0, 2>>] = 0

C10_FreqTruncation ==
    (pc \in {"sep_infer", "prep_done"}) =>
        /\ input_data.shape[2] <= 2048
        /\ input_data.shape[2] =
              IF spectrogram.shape[2] > 2048 THEN 2048 ELSE spectrogram.shape[2]
        /\ \A x \in DOMAIN input_data.at : x[2] < input_data.shape[2]
        /\ \A p \in 0..3, f \in ProbeBins \cap (0..(input_data.shape[2] - 1)) :
              /\ <<p, f, 0>> \in DOMAIN input_data.at
              /\ input_data.at[<<p, f, 0>>] =
                    PlaneValue(p, f, IF pc = "sep_infer" THEN ChunkStart ELSE 0)

\* A spectrogram of 2049 bins gave a tensor of 2048: bin 2047 is in, bin 2048 out.
C10_Witness ==
    /\ pc = "sep_infer"
    /\ spectrogram.shape[2] = 2049
    /\ input_data.shape[2] = 2048
    /\ <<0, 2047, 0>> \in DOMAIN input_data.at
    /\ <<0, 2048, 0>> \notin DOMAIN input_data.at
    /\ <<0, 2048, 0>> \in DOMAIN spectrogram.at

\* C11: the four planes of an inference tensor are, in this order, channel 0
\* real, channel 0 imaginary, channel 1 real, channel 1 imaginary; of a
\* spectrogram with one channel the planes 2 and 3 are copies of the planes 0
\* and 1.
C11_PlaneOrder ==
    (pc \in {"sep_infer", "prep_done"}) =>
        LET first == IF pc = "sep_infer" THEN chunk_i * chunk_size ELSE 0
            mono == spectrogram.shape[1] = 1
        IN  /\ input_data.shape[1] = 4
            /\ \A f \in ProbeBins, t \in ProbeFrames :
                  (/\ f < input_data.shape[2]
                   /\ t < input_data.shape[3]
                   /\ first + t < spectrogram.shape[3]) =>
                      LET ch0 == spectrogram.at[<<0, f, first + t>>]
                          ch1 == spectrogram.at[<<IF mono THEN 0 ELSE 1, f, first + t>>]
                      IN  /\ input_data.at[<<0, f, t>>] = ch0[1]
                          /\ input_data.at[<<1, f, t>>] = ch0[2]
                          /\ input_data.at[<<2, f, t>>] = ch1[1]
                          /\ input_data.at[<<3, f, t>>] = ch1[2]
            /\ mono =>
                  \A x \in DOMAIN input_data.at :
                      x[1] >= 2 => input_data.at[x] = input_data.at[<<x[1] - 2, x[2], x[3]>>]

\* A tensor of a two-channel spectrogram: its four planes differ at bin 1 of the
\* second chunk's first frame, plane 2 carrying channel 1's real part.
C11_Witness ==
    /\ pc = "sep_infer"
    /\ chunk_i = 1
    /\ spectrogram.shape[1] = 2
    /\ input_data.at[<<2, 1, 0>>] = spectrogram.at[<<1, 1, chunk_size>>][1]
    /\ input_data.at[<<3, 1, 0>>] = spectrogram.at[<<1, 1, chunk_size>>][2]
    /\ Cardinality({input_data.at[<<p, 1, 0>>] : p \in 0..3}) = 4

\* C12: every tensor run_onnx_inference passes to the inference engine has batch
\* size 1, four planes and exactly chunk_size time frames, the last, shorter
\* chunk included; with a frame size of 4096 it has exactly 2048 frequency bins.
C12_TensorShape ==
    /\ (pc = "sep_infer") =>
          /\ input_data.batch = 1
          /\ input_data.shape[1] = 4
          /\ input_data.shape[3] = chunk_size
          /\ (stft_n_fft = 4096) => input_data.shape[2] = 2048
    /\ (pc \in {"sep_chunk", "sep_infer", "sep_failed", "sep_adjust", "sep_apply", "sep_istft",
                "sep_save_vocals", "sep_save_instrumental", "sep_done"}) =>
          \A k \in 1..Len(calls) :
              /\ calls[k].input.batch = 1
              /\ calls[k].input.shape[1] = 4
              /\ calls[k].input.shape[3] = chunk_size
              /\ (stft_n_fft = 4096) => calls[k].input.shape[2] = 2048

\* The last chunk of two holds fewer frames than chunk_size, and the tensor
\* built from it has the full shape.
C12_Witness ==
    /\ pc = "sep_infer"
    /\ stft_n_fft = 4096
    /\ chunk_i = num_chunks - 1
    /\ chunk_i > 0
    /\ time_frames - chunk_i * chunk_size < chunk_size
    /\ input_data.batch = 1
    /\ input_data.shape = <<4, 2048, chunk_size>>
    /\ Len(calls) = chunk_i

\* The number of frames of the k-th chunk (k from 1) of the running spectrogram
ChunkLength(k) ==
    (IF k * chunk_size <= time_frames THEN k * chunk_size ELSE time_frames)
        - (k - 1) * chunk_size

\* C13: the mask kept for a chunk built from L frames (1 <= L <= chunk_size) has
\* exactly L time frames, and they are the first L columns of that chunk's
\* inference output, plane pairs combined to complex values; no padded column is
\* part of a mask.
C13_MaskTrimmedToSlice ==
    (pc \in {"sep_chunk", "sep_infer"}) =>
        \A k \in 1..Len(masks) :
            LET L == ChunkLength(k)
                out == calls[k].output
            IN  /\ L >= 1
                /\ L <= chunk_size
                /\ out.shape[3] = chunk_size
                /\ masks[k].shape = <<2, out.shape[2], L>>
                /\ \A x \in DOMAIN masks[k].at : x[3] < L
                /\ \A c \in 0..1, f \in ProbeBins, t \in ProbeFrames :
                      (f < out.shape[2] /\ t < L) =>
                          masks[k].at[<<c, f, t>>] =
                              <<out.at[<<2 * c, f, t>>], out.at[<<2 * c + 1, f, t>>]>>

\* The second chunk held one frame of three: its mask is the first column of an
\* output of three columns, which differs from the output's other columns.
C13_Witness ==
    /\ pc = "sep_chunk"
    /\ Len(masks) = 2
    /\ chunk_size = 3
    /\ ChunkLength(2) = 1
    /\ masks[2].shape[3] = 1
    /\ calls[2].output.shape[3] = 3
    /\ masks[2].at[<<0, 0, 0>>] =
          <<calls[2].output.at[<<0, 0, 0>>], calls[2].output.at[<<1, 0, 0>>]>>
    /\ masks[2].at[<<0, 0, 0>>] #
          <<calls[2].output.at[<<0, 0, 2>>], calls[2].output.at[<<1, 0, 2>>]>>

\* C14: the full mask of a spectrogram of T time frames has exactly T frames;
\* its frame t is column t mod chunk_size of the inference output of chunk
\* t div chunk_size, so the chunks' masks follow one another in chunk order
\* without gap or overlap, and the mask has the time extent of the truncated
\* spectrogram it is multiplied with.
C14_FullMaskCoversAllFrames ==
    (pc \in {"sep_adjust", "sep_apply", "sep_istft", "sep_save_vocals",
             "sep_save_instrumental", "sep_done"}
        \/ (pc = "sep_failed" /\ full_mask # <<>>)) =>
        LET T == spectrogram.shape[3]
        IN  /\ full_mask.shape[3] = T
            /\ full_mask.shape[1] = 2
            /\ \A x \in DOMAIN full_mask.at : x[3] < T
            /\ \A c \in 0..1, f \in ProbeBins, t \in ProbeFrames :
                  (f < full_mask.shape[2] /\ t < T) =>
                      LET out == calls[1 + t \div chunk_size].output
                          col == t % chunk_size
                      IN  full_mask.at[<<c, f, t>>] =
                              <<out.at[<<2 * c, f, col>>], out.at[<<2 * c + 1, f, col>>]>>
            /\ (spectrogram_adjusted # <<>>) =>
                  /\ spectrogram_adjusted.shape[3] = full_mask.shape[3]
                  /\ spectrogram_adjusted.shape[2] = full_mask.shape[2]

\* Five frames in chunks of two: the mask has five frames, the last one the
\* first column of the third chunk's output, the one before it the second
\* column of the second chunk's.
C14_Witness ==
    /\ pc = "sep_apply"
    /\ spectrogram.shape[3] = 5
    /\ chunk_size = 2
    /\ Len(calls) = 3
    /\ full_mask.shape[3] = 5
    /\ full_mask.at[<<1, 1, 4>>] =
          <<calls[3].output.at[<<2, 1, 0>>], calls[3].output.at[<<3, 1, 0>>]>>
    /\ full_mask.at[<<1, 1, 3>>] =
          <<calls[2].output.at[<<2, 1, 1>>], calls[2].output.at[<<3, 1, 1>>]>>
    /\ spectrogram_adjusted.shape[3] = 5

\* C15: a masked spectrogram exists only where the mask and the spectrogram it
\* was applied to had identical shapes; shapes that differ in any dimension
\* make the application fail, nothing is broadcast.
C15_IdenticalShapesOrFailure ==
    /\ (vocal_spec # <<>>) =>
          /\ spectrogram_adjusted.shape = full_mask.shape
          /\ vocal_spec.shape = spectrogram_adjusted.shape
    /\ (inst_spec # <<>>) =>
          /\ spectrogram_adjusted.shape = instrumental_mask.shape
          /\ inst_spec.shape = spectrogram_adjusted.shape

\* |v|^2 of a complex value
Norm2(v) == v[1] * v[1] + v[2] * v[2]

Stage(p) ==
    CASE p = "sep_stft" -> 0
      [] p \in {"sep_prepare", "sep_chunk", "sep_infer"} -> 1
      [] p \in {"sep_adjust", "sep_apply"} -> 2
      [] p = "sep_istft" -> 3
      [] p \in {"sep_save_vocals", "sep_save_instrumental"} -> 4
      [] p = "sep_done" -> 5

\* What the stages before position p have left behind.
StagesCompleted(p) ==
    /\ (Stage(p) >= 1) => spectrogram # <<>>
    /\ (p = "sep_infer") => /\ input_data # <<>>
                            /\ Len(calls) = chunk_i
                            /\ chunk_i < num_chunks
    /\ (Stage(p) >= 2) => /\ Len(calls) = num_chunks
                          /\ Len(masks) = num_chunks
                          /\ \A k \in 1..Len(calls) : calls[k].ok
                          /\ full_mask # <<>>
    /\ (Stage(p) < 2) => full_mask = <<>>
    /\ (Stage(p) >= 3) => /\ vocal_spec # <<>>
                          /\ inst_spec # <<>>
    /\ (Stage(p) < 3) => vocal_spec = <<>> /\ inst_spec = <<>>
    /\ (Stage(p) >= 4) => istft_n_fft # 0
    /\ (Stage(p) < 4) => istft_n_fft = 0 /\ saved = {}
    /\ (Stage(p) = 5) => saved = {"vocals", "instrumental"}

\* C17: for one input the stages run in the order forward transform, chunking,
\* inference, masking, inverse transform, stems written; none is skipped, none
\* starts before the one before it has completed, and the end is reached only
\* after the inverse transform.
C17_StageOrder ==
    /\ [](pc # "sep_failed" => StagesCompleted(pc))
    /\ [][(pc' # pc /\ pc' # "sep_failed") =>
            /\ Stage(pc') \in {Stage(pc), Stage(pc) + 1}
            /\ (pc' = "sep_infer") => pc = "sep_chunk"
            /\ (pc = "sep_infer") => pc' = "sep_chunk"]_vars

\* The end of a run of three chunks: both stems are written, after the inverse
\* transform.
C17_Witness ==
    /\ pc = "sep_done"
    /\ Len(calls) = 3
    /\ istft_n_fft # 0
    /\ vocal_spec # <<>>
    /\ saved = {"vocals", "instrumental"}

\* The run has ended: with an uncaught exception, or after the last line of main.
Ended == pc \in {"sep_failed", "sep_done"}

\* C18: a run that failed has produced no stem at all; no run ends with the
\* vocals stem written and the instrumental stem missing.
C18_NoPartialStems ==
    /\ (pc = "sep_failed") => saved = {}
    /\ Ended => ~("vocals" \in saved /\ "instrumental" \notin saved)

\* The tensor inp holds the frames of the k-th chunk (k from 1) of the
\* spectrogram and nothing else: the chunk's own frames in its first columns,
\* zeros in the others.
HoldsOnlyChunk(inp, k) ==
    /\ inp.shape[3] = chunk_size
    /\ \A x \in DOMAIN inp.at :
          inp.at[x] =
              IF x[3] < ChunkLength(k)
              THEN spectrogram.at[<<IF x[1] >= 2 /\ spectrogram.shape[1] > 1 THEN 1 ELSE 0,
                                    x[2], (k - 1) * chunk_size + x[3]>>][1 + (x[1] % 2)]
              ELSE 0

CeilDiv(t, cs) == CHOOSE n \in 0..t : (n - 1) * cs < t /\ t <= n * cs

\* C20: the inference engine is called exactly once per chunk, the k-th call
\* with the k-th chunk, ceil(T / chunk_size) calls for T time frames; a call
\* that failed is the last call of the run: it is not repeated, its error ends
\* the run (it reaches the caller of main) before any mask is assembled.
C20_OneCallPerChunk ==
    /\ [](\A k \in 1..Len(calls) : HoldsOnlyChunk(calls[k].input, k))
    /\ []((spectrogram # <<>> /\ chunk_size > 0) =>
            Len(calls) <= CeilDiv(spectrogram.shape[3], chunk_size))
    /\ []((pc \in {"sep_adjust", "sep_apply", "sep_istft", "sep_save_vocals",
                   "sep_save_instrumental", "sep_done"}) =>
            /\ Len(calls) = CeilDiv(spectrogram.shape[3], chunk_size)
            /\ \A k \in 1..Len(calls) : calls[k].ok)
    /\ [](\A k \in 1..Len(calls) :
            ~calls[k].ok =>
                /\ k = Len(calls)
                /\ pc = "sep_failed"
                /\ Len(masks) = k - 1
                /\ full_mask = <<>>
                /\ saved = {})
    /\ [][pc # "sep_failed"]_vars

\* The second call of three failed: two calls were made, the run has ended.
C20_Witness ==
    /\ pc = "sep_failed"
    /\ CeilDiv(spectrogram.shape[3], chunk_size) = 3
    /\ Len(calls) = 2
    /\ calls[1].ok
    /\ ~calls[2].ok
    /\ Len(masks) = 1

\* C21: the pipeline never blocks for ever: an inference call that does not
\* return in time ends the run with a failure, so every run reaches the end of
\* main or a failure.
C21_RunAlwaysEnds == <>Ended

AddedCovering(k, n) ==
    {i \in 0..(k - 1) : i * hop_length < n /\ n <= i * hop_length + n_fft}

\* What frame i gives to the output index n it covers: its inverse transform,
\* windowed
Contribution(i, n) == MulSeq(IfftReal(stft_result[i + 1]), window)[n - i * hop_length]

C22_SameHannEverywhere ==
    (window # <<>> /\ lib_window # <<>> /\ Len(window) = Len(lib_window)) =>
        window = lib_window

\* C23: the 440 Hz bin of a 4096-point analysis at 44.1 kHz is
\* round(440 * 4096 / 44100) = 41, and every diagnostic script that reads "the
\* 440 Hz bin" of such an analysis reads bin 41.
C23_ToneBinIs41 ==
    (pc = "diag_read" /\ diag.frequency = 440 /\ diag.n_fft = 4096 /\ diag.sr = 44100) =>
        diag.bin = 41

\* A NaN or Inf in a mask stays one through the mask product and the inverse
\* transform (IEEE arithmetic): the stems then hold a NaN or Inf sample.
StemsHoldNaN == mask_nan

\* C24: the pipeline checks what the synthesis gives for NaN and Inf and fails
\* when it finds one: no stem holding a NaN or Inf sample is ever written.
C24_NoAnomalousStemWritten ==
    (saved # {}) => ~StemsHoldNaN

\* The files among the first k tracks that exist
FoundAmong(k) == {j \in 1..k : mix.tracks[j].exists}

\* C25: every audio array the mix handles has two channels of one length: a
\* mono file is loaded as two identical channels, and after any number of
\* tracks the mix is as long as the shortest track mixed so far, in both
\* channels, each sample the sum of the tracks' samples at its position.
C25_ChannelsOfEqualLength ==
    (pc \in {"mix_loop", "mix_done", "mix_exit"}) =>
        /\ (mix.audio # <<>>) =>
              /\ Len(mix.audio) = 2
              /\ Len(mix.audio[1]) = Len(mix.audio[2])
              /\ \E j \in FoundAmong(mix.i) :
                    /\ \A k \in FoundAmong(mix.i) : k <= j
                    /\ Len(mix.audio[1]) = mix.tracks[j].len
                    /\ (mix.tracks[j].channels = 1) => mix.audio[1] = mix.audio[2]
        /\ (mix.mixed_audio = <<>>) <=> (FoundAmong(mix.i) = {})
        /\ (mix.mixed_audio # <<>>) =>
              /\ Len(mix.mixed_audio) = 2
              /\ Len(mix.mixed_audio[1]) = Len(mix.mixed_audio[2])
              /\ \A j \in FoundAmong(mix.i) : Len(mix.mixed_audio[1]) <= mix.tracks[j].len
              /\ \E j \in FoundAmong(mix.i) : Len(mix.mixed_audio[1]) = mix.tracks[j].len
              /\ (pc = "mix_loop") =>
                    \A c \in 1..2, k \in 1..Len(mix.mixed_audio[1]) :
                        mix.mixed_audio[c][k] =
                            SumOver([j \in FoundAmong(mix.i) |->
                                        100 * j + k
                                            + (IF mix.tracks[j].channels = 1 THEN 0 ELSE 10 * c)],
                                    FoundAmong(mix.i))

\* A stereo track of 3 samples, a mono track of 1 and a stereo track of 2 have
\* been mixed: the mix has one sample in both channels.
C25_Witness ==
    /\ pc = "mix_loop"
    /\ mix.i = 3
    /\ mix.tracks[1] = [exists |-> TRUE, channels |-> 2, len |-> 3]
    /\ mix.tracks[2] = [exists |-> TRUE, channels |-> 1, len |-> 1]
    /\ mix.tracks[3] = [exists |-> TRUE, channels |-> 2, len |-> 2]
    /\ Len(mix.mixed_audio[1]) = 1
    /\ Len(mix.mixed_audio[2]) = 1
    /\ mix.mixed_audio[2][1] = 121 + 201 + 321


\* C28: for a spectrogram of at least one frame, the tensor run_onnx_inference
\* builds for its first chunk is the tensor prepare_model_input returned for
\* the same spectrogram: shape, plane order, kept bins and frames, padding.
C28_FirstChunkIsPreparedInput ==
    (pc = "sep_infer" /\ chunk_i = 0 /\ prep_input # <<>>) =>
        input_data = prep_input

\* The first chunk of a mono spectrogram of more than 2048 bins and more frames
\* than a chunk holds has been built.
C28_Witness ==
    /\ pc = "sep_infer"
    /\ chunk_i = 0
    /\ prep_input # <<>>
    /\ spectrogram.shape[1] = 1
    /\ spectrogram.shape[2] > FreqLimit
    /\ spectrogram.shape[3] > MainChunk
    /\ input_data.shape = <<4, FreqLimit, MainChunk>>


\* C29: when download_file has ended on a request error, raised before or
\* during the transfer, it has returned False and no file is at output_path,
\* whether or not a file was there before the call.
C29_NoFileAfterRequestError ==
    (pc = "dl_end" /\ dl.failed_at # "") =>
        /\ dl.result = "false"
        /\ ~dl.file.exists

\* A file was at output_path, the user asked for a new download, and the
\* request failed after bytes had been written.
C29_Witness ==
    /\ pc = "dl_end"
    /\ dl.existed
    /\ dl.failed_at = "dl_iter"
    /\ dl.got >= 2
    /\ dl.body[1] = "b"
    /\ dl.result = "false"
    /\ ~dl.file.exists

=============================================================================
